---- MODULE Spec2Model ----
(***************************************************************************)
(* A model of NIfTI-gridview: the grid composer (draw_grid and             *)
(* draw_grid_contour), the draw task (draw_grid_wrapper), the reader task  *)
(* (ngv_io_reader_wrapper) and the main window's handlers that configure   *)
(* and start them.                                                         *)
(*                                                                         *)
(* Tensors are records [shape, data]: data is the row-major storage, as in *)
(* torch and numpy, so squeeze and unsqueeze change the shape only.        *)
(* An optional Python value is <<>> (None) or <<v>>.                       *)
(***************************************************************************)
EXTENDS Integers, Sequences, FiniteSets, TLC

\* ------------------------------------------------------------------ bounds
MaxDepth == 2
MaxHeight == 3
MaxWidth == 2
MaxOffset == 1
MaxNrow == 3
MaxMargin == 1

\* ----------------------------------------------------------- Python values
None == <<>>
Some(v) == <<v>>
IsNone(x) == x = <<>>
Val(x) == x[1]

Max2(a, b) == IF a >= b THEN a ELSE b
Min2(a, b) == IF a <= b THEN a ELSE b

\* np.ceil(np.sqrt(n)) as an integer
CeilSqrt(n) == CHOOSE r \in 0..n : r * r >= n /\ (r = 0 \/ (r - 1) * (r - 1) < n)

\* int(np.sqrt(n)): the square root truncated
FloorSqrt(n) == CHOOSE r \in 0..n : r * r <= n /\ (r + 1) * (r + 1) > n

\* math.ceil(float(a) / b)
CeilDiv(a, b) == (a + b - 1) \div b

RECURSIVE Prod(_)
Prod(s) == IF s = <<>> THEN 1 ELSE Head(s) * Prod(Tail(s))

Zeros(n) == [i \in 1..n |-> 0]

SeqMin(s) == CHOOSE m \in {s[i] : i \in 1..Len(s)} : \A i \in 1..Len(s) : m <= s[i]
SeqMax(s) == CHOOSE m \in {s[i] : i \in 1..Len(s)} : \A i \in 1..Len(s) : m >= s[i]

\* ------------------------------------------------------------ tensor calls
NotOne(d) == d # 1

\* Tensor.squeeze(): every dimension of size 1 is dropped, the storage is kept
squeeze(t) == [shape |-> SelectSeq(t.shape, NotOne), data |-> t.data]

\* Tensor.unsqueeze(1) of a 3-D tensor: (D, H, W) -> (D, 1, H, W)
unsqueeze1(t) ==
    [shape |-> <<t.shape[1], 1>> \o SubSeq(t.shape, 2, Len(t.shape)), data |-> t.data]

\* nn.ConstantPad3d((0, 0, 0, 0, offset, 0), 0) accepts a tensor of 3 or more
\* dimensions: six pad widths need three dimensions to apply to
pad_accepts(t) == Len(t.shape) >= 3

\* ... and on a 3-D tensor puts offset zero slices in front of the first axis
ConstantPad3d(t, offset) ==
    [shape |-> <<t.shape[1] + offset, t.shape[2], t.shape[3]>>,
     data  |-> Zeros(offset * t.shape[2] * t.shape[3]) \o t.data]

\* a[lo:hi] on an axis of extent n, for lo, hi >= 0: the indices kept (1-based)
SliceLo(lo, n) == Min2(lo, n)
SliceLen(lo, hi, n) == Max2(0, Min2(hi, n) - Min2(lo, n))

\* ------------------------------------------------------------ draw_grid.py

\* assert offset >= 0 or offset is None.  `None >= 0` is evaluated first: it
\* raises TypeError under Python 3 and is False under Python 2.
assert_offset(offset, py3) ==
    IF IsNone(offset)
    THEN IF py3 THEN "TypeError" ELSE "ok"
    ELSE IF Val(offset) >= 0 THEN "ok" ELSE "AssertionError"

\* if not offset is None: squeeze, then ConstantPad3d.  status is "ok" or the
\* error the pad raises on a tensor squeezed to fewer than 3 dimensions.
offset_pad(t, offset) ==
    IF IsNone(offset) THEN [status |-> "ok", t |-> t]
    ELSE LET s == squeeze(t) IN
         IF pad_accepts(s)
         THEN [status |-> "ok", t |-> ConstantPad3d(s, Val(offset))]
         ELSE [status |-> "PadError", t |-> s]

\* if image.dim() == 3: image = image.unsqueeze(1)
handle_dims(t) == IF Len(t.shape) = 3 THEN unsqueeze1(t) ELSE t

\* if nrow is None: nrow = np.int(np.ceil(np.sqrt(len(image))))
auto_nrow(t, nrow) == IF IsNone(nrow) THEN CeilSqrt(t.shape[1]) ELSE Val(nrow)

\* lower_bound = [np.max([0, int(c - s // 2)]) for c, s in zip(center, size)]
lower_bound(crop) ==
    [i \in 1..2 |-> Max2(0, crop.center[i] - (crop.size[i] \div 2))]

\* upper_bound = [np.min([l + s, m]) for l, s, m in
\*                zip(lower_bound, size, im_shape[1:])]
\* im_shape is the shape after unsqueeze(1), (D, 1, H, W): im_shape[1:] is
\* (1, H, W), and zip pairs the two bounds with its first two entries.
upper_bound(crop, im_shape) ==
    LET lb == lower_bound(crop)
        m  == SubSeq(im_shape, 2, Len(im_shape))
    IN [i \in 1..2 |-> Min2(lb[i] + crop.size[i], m[i])]

\* image[:, :, lower_bound[0]:upper_bound[0], lower_bound[1]:upper_bound[1]]
crop_apply(t, crop) ==
    IF IsNone(crop) THEN t
    ELSE LET lb == lower_bound(Val(crop))
             ub == upper_bound(Val(crop), t.shape)
             D  == t.shape[1]
             H  == t.shape[3]
             W  == t.shape[4]
             y0 == SliceLo(lb[1], H)
             x0 == SliceLo(lb[2], W)
             h2 == SliceLen(lb[1], ub[1], H)
             w2 == SliceLen(lb[2], ub[2], W)
         IN [shape |-> <<D, 1, h2, w2>>,
             data  |-> [i \in 1..(D * h2 * w2) |->
                          LET z == (i - 1) \div (h2 * w2)
                              r == (i - 1) % (h2 * w2)
                              y == r \div w2
                              x == r % w2
                          IN t.data[(z * H + y0 + y) * W + x0 + x + 1]]]

\* norm_ip of torchvision's make_grid, then draw_grid's (x * 255.).astype('uint8'):
\* (x - min) / (max - min + 1e-5) * 255, truncated
NormPixel(x, mn, mx) == ((x - mn) * 25500000) \div ((mx - mn) * 100000 + 1)

\* torchvision.utils.make_grid(tensor, nrow, padding, pad_value) on a
\* (D, 1, h, w) tensor whose values are already final.  The three channels it
\* makes (torch.cat of the single channel) are equal: px holds one of them.
grid_columns_exact(nrow, nmaps) == nrow

\* xmaps = min(nrow, nmaps)
grid_columns(nrow, nmaps) == Min2(nrow, nmaps)

make_grid(t, nrow, padding, pad_value) ==
    LET nmaps  == t.shape[1]
        h      == t.shape[3]
        w      == t.shape[4]
        xmaps  == grid_columns(nrow, nmaps)
        ymaps  == CeilDiv(nmaps, xmaps)
        height == h + padding
        width  == w + padding
        GH     == height * ymaps + padding
        GW     == width * xmaps + padding
    IN IF nmaps = 1
       THEN \* if tensor.size(0) == 1: return tensor.squeeze(0)
            [h |-> h, w |-> w, px |-> t.data, xmaps |-> 1, ymaps |-> 1]
       ELSE [h |-> GH, w |-> GW, xmaps |-> xmaps, ymaps |-> ymaps,
             px |-> [i \in 1..(GH * GW) |->
                LET gy == (i - 1) \div GW
                    gx == (i - 1) % GW
                    cy == (gy - padding) \div height
                    cx == (gx - padding) \div width
                    y  == (gy - padding) % height
                    x  == (gx - padding) % width
                    k  == cy * xmaps + cx
                IN IF gy >= padding /\ gx >= padding /\ y < h /\ x < w
                      /\ cx < xmaps /\ k < nmaps
                   THEN t.data[(k * h + y) * w + x + 1]
                   ELSE pad_value]]

EmptyImg == [h |-> 0, w |-> 0, px |-> <<>>]

\* what a call that raised leaves behind
Raised(err) ==
    [status |-> err, img |-> EmptyImg, nrow |-> 0, cols |-> 0, rows |-> 0,
     depth |-> 0, sh |-> 0, sw |-> 0, H |-> 0, W |-> 0, lb |-> <<>>, ub |-> <<>>]

\* applyColorMap(im_grid[:, :, 0], colormaps[cmap]) is a lookup table per
\* pixel; a pixel is <<table, value>>, the table "gray" when none is applied
colorize(px, cmap) ==
    LET table == IF IsNone(cmap) \/ cmap = Some("Default") THEN "gray" ELSE Val(cmap)
    IN [i \in 1..Len(px) |-> <<table, px[i]>>]

\* an object that is no tensor (None): image.squeeze() and image.dim() raise
\* AttributeError on it
NoneImage == [shape |-> <<>>, data |-> <<>>]
is_tensor(image) == image.shape # <<>>

\* draw_grid(image, crop, nrow, offset, background, margins, cmap)
draw_grid(image, crop, nrow, offset, background, margins, cmap, py3) ==
    IF assert_offset(offset, py3) # "ok" THEN Raised(assert_offset(offset, py3))
    ELSE IF ~is_tensor(image) THEN Raised("AttributeError")
    ELSE LET p == offset_pad(image, offset) IN
    IF p.status # "ok" THEN Raised(p.status)
    ELSE LET t4 == handle_dims(p.t)
             n  == auto_nrow(t4, nrow)
             c  == crop_apply(t4, crop)
         IN
    IF Len(c.data) = 0 THEN Raised("RuntimeError")  \* t.min() of an empty tensor
    ELSE LET mn == SeqMin(c.data)
             mx == SeqMax(c.data)
             nt == [shape |-> c.shape,
                    data  |-> [i \in 1..Len(c.data) |-> NormPixel(c.data[i], mn, mx)]]
             g  == make_grid(nt, n, margins, (background * 255) % 256)
         IN [status |-> "ok",
             img    |-> [h |-> g.h, w |-> g.w, px |-> colorize(g.px, cmap)],
             nrow   |-> n, cols |-> g.xmaps, rows |-> g.ymaps,
             depth  |-> t4.shape[1], sh |-> c.shape[3], sw |-> c.shape[4],
             H      |-> t4.shape[3], W |-> t4.shape[4],
             lb     |-> IF IsNone(crop) THEN <<>> ELSE lower_bound(Val(crop)),
             ub     |-> IF IsNone(crop) THEN <<>> ELSE upper_bound(Val(crop), t4.shape)]

\* ------------------------------------------------- cv2 contour calls
Row(g, i) == (i - 1) \div g.w
Col(g, i) == (i - 1) % g.w
Pixels(g) == 1..(g.h * g.w)
OnFrame(g, i) ==
    Row(g, i) = 0 \/ Row(g, i) = g.h - 1 \/ Col(g, i) = 0 \/ Col(g, i) = g.w - 1

\* the 4-neighbours of pixel i inside the image
N4(g, i) ==
    {j \in {i - g.w, i + g.w, i - 1, i + 1} :
        /\ j \in Pixels(g)
        /\ \/ Col(g, j) = Col(g, i)
           \/ Row(g, j) = Row(g, i)}

RECURSIVE Flood(_, _, _)
Flood(g, seen, frontier) ==
    LET new == {j \in UNION {N4(g, i) : i \in frontier} : g.px[j] = 0} \ seen
    IN IF new = {} THEN seen ELSE Flood(g, seen \cup new, new)

\* the background reachable from the image frame
Outer(g) ==
    LET start == {i \in Pixels(g) : g.px[i] = 0 /\ OnFrame(g, i)}
    IN Flood(g, start, start)

\* cv2.findContours(seg_grid, RETR_EXTERNAL, CHAIN_APPROX_SIMPLE): the outer
\* borders of the non-zero regions, as the set of their pixels.  A border pixel
\* is a non-zero pixel with a 4-neighbour in the outer background, the frame
\* around the image counting as background.
findContours(g) ==
    LET out == Outer(g)
    IN {i \in Pixels(g) : g.px[i] # 0 /\ (OnFrame(g, i) \/ N4(g, i) \cap out # {})}

\* `_a, contours, _b = cv2.findContours(...)`: OpenCV 3 returns three values;
\* OpenCV 2 and 4 return two, and the unpacking raises ValueError
unpack_status(cv) == IF cv = 3 THEN "ok" ELSE "ValueError"

Abs(x) == IF x < 0 THEN -x ELSE x

\* cv2.drawContours(im_grid, contours, -1, rgb, thickness), in place: the
\* pixels of im within the stroke of a contour pixel of the grid g take rgb
drawContours(im, g, contours, rgb, thickness) ==
    [h |-> im.h, w |-> im.w,
     px |-> [i \in 1..Len(im.px) |->
               IF \E c \in contours :
                     /\ Abs(Row(g, c) - Row(im, i)) <= thickness \div 2
                     /\ Abs(Col(g, c) - Col(im, i)) <= thickness \div 2
               THEN <<"rgb", rgb>>
               ELSE im.px[i]]]

drawContours_unguarded(im, g, contours, color, thickness) ==
    IF IsNone(color)
    THEN [status |-> "AttributeError", caught |-> "none", img |-> EmptyImg]
    ELSE [status |-> "ok", caught |-> "none",
          img |-> drawContours(im, g, contours, Val(color), thickness)]

\* try: cv2.drawContours(im_grid, contours, -1, color.color().getRgb()[:3], ...)
\* except Exception as e: print(e)
\* color.color() raises AttributeError when color is None
try_drawContours(im, g, contours, color, thickness) ==
    IF IsNone(color)
    THEN [status |-> "ok", caught |-> "AttributeError", img |-> im]
    ELSE [status |-> "ok", caught |-> "none",
          img |-> drawContours(im, g, contours, Val(color), thickness)]

RaisedC(err, stage) ==
    [status |-> err, stage |-> stage, caught |-> "none", img |-> EmptyImg,
     cols |-> 0, rows |-> 0, gh |-> 0, gw |-> 0, depth |-> 0,
     contours |-> {}, lb |-> <<>>, ub |-> <<>>]

\* draw_grid_contour(im_grid, seg, crop, nrow, offset, background, margins,
\*                   color, thickness)
draw_grid_contour(im_grid, seg, crop, nrow, offset, background, margins, color, thickness, py3, cv) ==
    IF assert_offset(offset, py3) # "ok"
    THEN RaisedC(assert_offset(offset, py3), "assert")
    ELSE IF ~is_tensor(seg) THEN RaisedC("AttributeError", "offset")
    ELSE LET u8 == [shape |-> seg.shape,
                    data  |-> [i \in 1..Len(seg.data) |-> seg.data[i] % 256]]
             p  == offset_pad(u8, offset)
         IN
    IF p.status # "ok" THEN RaisedC(p.status, "offset")
    ELSE LET t4 == handle_dims(p.t)
             n  == auto_nrow(t4, nrow)
             c  == crop_apply(t4, crop)
             g  == make_grid(c, n, margins, background % 256)
             sg == [h |-> g.h, w |-> g.w, px |-> g.px]
         IN
    IF unpack_status(cv) # "ok" THEN RaisedC(unpack_status(cv), "extract")
    ELSE LET cs == findContours(sg)
             d  == try_drawContours(im_grid, sg, cs, color, thickness)
         IN [status |-> d.status, stage |-> IF d.status = "ok" THEN "done" ELSE "draw",
             caught |-> d.caught,
             img |-> d.img, cols |-> g.xmaps, rows |-> g.ymaps,
             gh |-> g.h, gw |-> g.w, depth |-> t4.shape[1], contours |-> cs,
             lb |-> IF IsNone(crop) THEN <<>> ELSE lower_bound(Val(crop)),
             ub |-> IF IsNone(crop) THEN <<>> ELSE upper_bound(Val(crop), t4.shape)]

\* ---------------------------------------------------- the composer's calls
VARIABLES
    gpc,        \* "idle", "composed" (draw_grid returned), "overlaid"
    gargs,      \* the arguments of the draw_grid call
    gbase,      \* what draw_grid returned
    gcall,      \* the further arguments of the draw_grid_contour call
    gout        \* what draw_grid_contour returned

\* the draw task, the writer task and the main window
VARIABLES
    env,        \* [py3, cv]: the interpreter and the OpenCV the program runs on
    heap,       \* the configuration dictionaries, by reference (1, 2, ...)
    dw_config,  \* draw_worker._config: a reference, 0 for None
    dw_result,  \* draw_worker._result: None or an image
    dw_pc,      \* where draw_worker.run() stands: idle, pop, draw, segments,
                \* contour, end
    dw_target,  \* run()'s local target_im
    dw_todo,    \* run()'s pairs of zip(segment, segment_color) still to draw
    dw_runs,    \* the runs of draw_worker.run() in progress
    dw_exc,     \* the exception that left the run, "none" when none did
    dw_hist,    \* history of the run: the dictionary when it started, whether
                \* it stored a result, the geometry draw_grid tiled with
    msgs,       \* what display_msg emitted, in order
    pending,    \* finished signals of draw_worker not yet delivered
    shown,      \* the image on image_label: None or an image
    ui,         \* the widgets
    errbox,     \* the text of the last QErrorMessage, "" before any
    wr_runs,    \* the runs of io_write_worker.run() in progress
    wr_cfg,     \* io_write_worker._writer: None or [id, config, dir]
    events      \* user actions so far

\* the reader task
VARIABLES
    rd_n,       \* len(self._reader)
    rd_pc,      \* where ngv_io_reader_wrapper.run() stands
    rd_i,       \* the loop variable of read_all_targets
    rd_sent,    \* history: the progress values emitted, in order
    rd_queue,   \* signals emitted and not yet delivered to the UI thread
    rd_msgs,    \* history: the status messages emitted, with the number of
                \* progress values emitted before each
    bar,        \* _progress_bar's value
    status      \* the status bar's text

gvars == <<gpc, gargs, gbase, gcall, gout>>
tvars == <<env, heap, dw_config, dw_result, dw_pc, dw_target, dw_todo, dw_runs,
           dw_exc, dw_hist, msgs, pending>>
uvars == <<shown, ui, errbox, wr_runs, wr_cfg, events>>
rvars == <<rd_n, rd_pc, rd_i, rd_sent, rd_queue, rd_msgs, bar, status>>
vars == <<gvars, tvars, uvars, rvars>>
Shapes == {<<d, h, w>> : d \in 1..MaxDepth, h \in 1..MaxHeight, w \in 1..MaxWidth}

\* volumes: all zero, one non-zero voxel, or every voxel of slice z holding z
Volume(shape, kind) ==
    [shape |-> shape,
     data  |-> [i \in 1..Prod(shape) |->
                  IF kind = "zero" THEN 0
                  ELSE IF kind = "dot" THEN (IF i = 1 THEN 1 ELSE 0)
                  ELSE 1 + ((i - 1) \div (shape[2] * shape[3]))]]

\* crops: none, one larger than the image, one at the corner, one whose
\* first lower bound lies beyond the rows the first upper bound allows
Crops == {None, Some([center |-> <<1, 1>>, size |-> <<4, 4>>]),
          Some([center |-> <<0, 0>>, size |-> <<2, 2>>]),
          Some([center |-> <<3, 1>>, size |-> <<2, 2>>])}

NoArgs == [image |-> Volume(<<1, 1, 1>>, "zero"), crop |-> None, nrow |-> None,
           offset |-> None, background |-> 0, margins |-> 0, cmap |-> None,
           py3 |-> TRUE]

NoCall == [seg |-> Volume(<<1, 1, 1>>, "zero"), color |-> None, thickness |-> 0,
           cv |-> 3]

GInit ==
    /\ gpc = "idle" /\ gargs = NoArgs /\ gbase = Raised("idle")
    /\ gcall = NoCall /\ gout = RaisedC("idle", "idle")

CallDrawGrid ==
    /\ gpc = "idle"
    /\ \E shape \in Shapes, kind \in {"ramp"}, crop \in Crops,
          nrow \in {None} \cup {Some(n) : n \in 1..MaxNrow},
          offset \in {None} \cup {Some(k) : k \in -1..MaxOffset},
          background \in {0, 1}, margins \in 0..MaxMargin,
          cmap \in {None, Some("Jet")} :
         \E py3 \in IF IsNone(offset) THEN BOOLEAN ELSE {TRUE} :
           /\ gargs' = [image |-> Volume(shape, kind), crop |-> crop, nrow |-> nrow,
                        offset |-> offset, background |-> background,
                        margins |-> margins, cmap |-> cmap, py3 |-> py3]
           /\ gbase' = draw_grid(Volume(shape, kind), crop, nrow, offset,
                                 background, margins, cmap, py3)
    /\ gpc' = "composed"
    /\ UNCHANGED <<gcall, gout, tvars, uvars, rvars>>

\* the overlay of one mask on the composed grid, with the configuration the
\* grid was composed with (draw_grid_wrapper.run passes **self._config to both)
CallDrawGridContour ==
    /\ gpc = "composed"
    /\ gbase.status = "ok"
    /\ \E kind \in {"zero", "dot"}, color \in {None, Some(7)},
          thickness \in 1..2, cv \in {3, 4} :
         /\ gcall' = [seg |-> Volume(gargs.image.shape, kind), color |-> color,
                      thickness |-> thickness, cv |-> cv]
         /\ gout' = draw_grid_contour(gbase.img, Volume(gargs.image.shape, kind),
                        gargs.crop, gargs.nrow, gargs.offset, gargs.background,
                        gargs.margins, color, thickness, gargs.py3, cv)
    /\ gpc' = "overlaid"
    /\ UNCHANGED <<gargs, gbase, tvars, uvars, rvars>>

GNext == CallDrawGrid \/ CallDrawGridContour


\* ----------------------------------------------------- draw_grid_wrapper.py
MaxEvents == 3
MaxSegs == 1

\* a configuration dictionary; a key that may be absent holds None when it is
\* ('target_im' after the pop, 'segment' without segmentations).  ghost_auto
\* is no key: it records that the main window chose nrow itself.
Dict(target_im, segment, segment_color, nrow, offset, margins, cmap, auto) ==
    [target_im |-> target_im, segment |-> segment, segment_color |-> segment_color,
     nrow |-> nrow, offset |-> offset, margins |-> margins, cmap |-> cmap,
     thickness |-> 2, ghost_auto |-> auto]

NoDict == Dict(None, None, <<>>, None, None, 0, None, FALSE)
NoHist == [start |-> NoDict, nmsg |-> 0, stored |-> FALSE, cols |-> 0, depth |-> 0,
           auto |-> FALSE]

\* draw_grid(target_im, **self._config): crop and background keep their
\* defaults, the other keys of the dictionary go to **kwargs
call_draw_grid(target_im, cfg, e) ==
    draw_grid(target_im, None, cfg.nrow, cfg.offset, 0, cfg.margins, cfg.cmap, e.py3)

\* draw_grid_contour(self._result, ss, color=ss_color, **self._config)
call_draw_grid_contour(result, ss, ss_color, cfg, e) ==
    draw_grid_contour(result, ss, None, cfg.nrow, cfg.offset, 0, cfg.margins,
                      ss_color, cfg.thickness, e.py3, e.cv)

\* zip(self._config['segment'], self._config['segment_color'])
zip_segments(cfg) ==
    IF IsNone(cfg.segment) THEN <<>>
    ELSE [i \in 1..Min2(Len(Val(cfg.segment)), Len(cfg.segment_color)) |->
            [ss |-> Val(cfg.segment)[i], ss_color |-> cfg.segment_color[i]]]

\* QThread.start(): "if the thread is already running, this function does
\* nothing"; otherwise run() begins in a new thread
thread_start(runs) == IF runs > 0 THEN runs ELSE runs + 1

\* draw_grid_wrapper.start(), the configuration dictionary being cfg
Start(cfg) ==
    /\ dw_runs' = thread_start(dw_runs)
    /\ IF dw_runs' > dw_runs
       THEN /\ dw_pc' = "pop" /\ dw_exc' = "none"
            /\ dw_hist' = [NoHist EXCEPT !.start = cfg, !.nmsg = Len(msgs)]
       ELSE UNCHANGED <<dw_pc, dw_exc, dw_hist>>

\* draw_grid_wrapper.set_config(config); draw_grid_wrapper.start()
SetConfigAndStart(cfg) ==
    /\ heap' = Append(heap, cfg)
    /\ dw_config' = Len(heap) + 1
    /\ Start(cfg)
    /\ UNCHANGED <<env, dw_result, dw_target, dw_todo, msgs, pending>>

\* run(): assert not self._config is None;
\*        target_im = self._config.pop('target_im')
RunPop ==
    /\ dw_pc = "pop"
    /\ IF dw_config = 0
       THEN dw_exc' = "AssertionError" /\ dw_pc' = "end" /\ UNCHANGED <<heap, dw_target>>
       ELSE IF IsNone(heap[dw_config].target_im)
       THEN dw_exc' = "KeyError" /\ dw_pc' = "end" /\ UNCHANGED <<heap, dw_target>>
       ELSE /\ dw_target' = Val(heap[dw_config].target_im)
            /\ heap' = [heap EXCEPT ![dw_config].target_im = None]
            /\ dw_pc' = "draw"
            /\ UNCHANGED dw_exc
    /\ UNCHANGED <<env, dw_config, dw_result, dw_todo, dw_runs, dw_hist, msgs, pending>>
    /\ UNCHANGED <<gvars, uvars, rvars>>

\* what run() does with the outcome of a call in its try block: the result
\* is stored, AttributeError is caught and reported, anything else leaves run()
caught_by_run(err) == err = "AttributeError"

\* run(): self._result = draw_grid(target_im, **self._config)
RunDraw ==
    /\ dw_pc = "draw"
    /\ LET cfg == heap[dw_config]
           r   == call_draw_grid(dw_target, cfg, env)
       IN IF r.status = "ok"
          THEN /\ dw_result' = Some(r.img)
               /\ dw_hist' = [dw_hist EXCEPT !.stored = TRUE, !.cols = r.cols,
                                             !.depth = r.depth, !.auto = cfg.ghost_auto]
               /\ dw_pc' = "segments"
               /\ UNCHANGED <<msgs, dw_exc>>
          ELSE IF caught_by_run(r.status)
          THEN /\ msgs' = Append(msgs, "Wrong drawing configuration")
               /\ dw_pc' = "end"
               /\ UNCHANGED <<dw_result, dw_hist, dw_exc>>
          ELSE /\ dw_exc' = r.status
               /\ dw_pc' = "end"
               /\ UNCHANGED <<dw_result, dw_hist, msgs>>
    /\ UNCHANGED <<env, heap, dw_config, dw_target, dw_todo, dw_runs, pending>>
    /\ UNCHANGED <<gvars, uvars, rvars>>

\* run(): if 'segment' in self._config and 'segment_color' in self._config:
\*            for ss, ss_color in zip(...)
RunSegments ==
    /\ dw_pc = "segments"
    /\ dw_todo' = zip_segments(heap[dw_config])
    /\ dw_pc' = IF dw_todo' = <<>> THEN "end" ELSE "contour"
    /\ UNCHANGED <<env, heap, dw_config, dw_result, dw_target, dw_runs, dw_exc,
                   dw_hist, msgs, pending>>
    /\ UNCHANGED <<gvars, uvars, rvars>>

\* run(): self._result = draw_grid_contour(self._result, ss, color=ss_color,
\*                                         **self._config)
RunContour ==
    /\ dw_pc = "contour"
    /\ LET r == call_draw_grid_contour(Val(dw_result), Head(dw_todo).ss,
                                       Head(dw_todo).ss_color, heap[dw_config], env)
       IN IF r.status = "ok"
          THEN /\ dw_result' = Some(r.img)
               /\ dw_todo' = Tail(dw_todo)
               /\ dw_pc' = IF Tail(dw_todo) = <<>> THEN "end" ELSE "contour"
               /\ UNCHANGED <<msgs, dw_exc>>
          ELSE IF caught_by_run(r.status)
          THEN /\ msgs' = Append(msgs, "Wrong drawing configuration")
               /\ dw_pc' = "end"
               /\ UNCHANGED <<dw_result, dw_todo, dw_exc>>
          ELSE /\ dw_exc' = r.status
               /\ dw_pc' = "end"
               /\ UNCHANGED <<dw_result, dw_todo, msgs>>
    /\ UNCHANGED <<env, heap, dw_config, dw_target, dw_runs, dw_hist, pending>>
    /\ UNCHANGED <<gvars, uvars, rvars>>

\* run() returns or is left by an exception: the thread ends and QThread
\* emits finished, queued for the UI thread
RunEnd ==
    /\ dw_pc = "end"
    /\ dw_pc' = "idle"
    /\ dw_runs' = dw_runs - 1
    /\ pending' = pending + 1
    /\ UNCHANGED <<env, heap, dw_config, dw_result, dw_target, dw_todo, dw_exc,
                   dw_hist, msgs>>
    /\ UNCHANGED <<gvars, uvars, rvars>>

TIdle ==
    /\ env = [py3 |-> TRUE, cv |-> 3]
    /\ heap = <<>> /\ dw_config = 0 /\ dw_result = None /\ dw_pc = "idle"
    /\ dw_target = NoneImage /\ dw_todo = <<>> /\ dw_runs = 0 /\ dw_exc = "none"
    /\ dw_hist = NoHist /\ msgs = <<>> /\ pending = 0

\* --------------------------------------------------------------- mainwindow.py
Files == <<"a", "b">>

\* self.io_reader_worker[active_file]: the volume loaded from the file
reader_getitem(f) ==
    IF f = "a" THEN Volume(<<4, 2, 2>>, "ramp") ELSE Volume(<<2, 2, 2>>, "ramp")

\* s[active_file] of a segmentation reader: the mask of the file
seg_getitem(f) ==
    IF f = "a" THEN Volume(<<4, 2, 2>>, "dot") ELSE Volume(<<2, 2, 2>>, "dot")

\* target_im[lo:hi], along the depth axis
depth_slice(t, lo, hi) ==
    LET hw == t.shape[2] * t.shape[3]
        n  == SliceLen(lo, hi, t.shape[1])
    IN [shape |-> <<n, t.shape[2], t.shape[3]>>,
        data  |-> SubSeq(t.data, SliceLo(lo, t.shape[1]) * hw + 1,
                         (SliceLo(lo, t.shape[1]) + n) * hw)]

\* _update_image_data: the volume to draw
displayed_volume(u) ==
    IF u.userange
    THEN depth_slice(reader_getitem(Val(u.sel)), u.lo, u.hi + 1)
    ELSE reader_getitem(Val(u.sel))

\* _update_image_data: nrow = int(np.sqrt(target_im.shape[0])) if the auto
\* check box is checked, else the spin box's value
gui_nrow(depth, spin, auto) == IF auto THEN FloorSqrt(depth) ELSE spin

\* _update_image_data: the dictionary it builds
new_config(u) ==
    LET target_im == displayed_volume(u)
    IN Dict(Some(target_im),
            IF u.nseg = 0 THEN None
            ELSE Some([i \in 1..u.nseg |-> seg_getitem(Val(u.sel))]),
            [i \in 1..u.nseg |-> Some(7)],
            Some(gui_nrow(target_im.shape[1], u.nrow, u.auto)),
            Some(u.offset), u.padding, Some(u.cmap), u.auto)

\* _update_image_data: the range spin boxes are put back to the whole volume
\* when the range check box is not checked
after_update(u) ==
    IF u.userange THEN u
    ELSE [u EXCEPT !.lo = 0, !.hi = reader_getitem(Val(u.sel)).shape[1] - 1]

\* _update_image_data, with the widgets as the signal that called it left
\* them.  Without a selected file selectedItems()[0] raises IndexError and
\* the slot ends there.
UpdateImageData(u) ==
    IF IsNone(u.sel)
    THEN ui' = u /\ UNCHANGED tvars
    ELSE ui' = after_update(u) /\ SetConfigAndStart(new_config(u))

UserAction == events < MaxEvents /\ events' = events + 1

\* _action_open_folder: the list is filled anew, which clears the selection
OpenFolder ==
    /\ UserAction
    /\ ~ui.loaded
    /\ ui' = [ui EXCEPT !.loaded = TRUE, !.sel = None]
    /\ UNCHANGED <<shown, errbox, wr_runs, wr_cfg>>
    /\ UNCHANGED <<gvars, tvars, rvars>>

\* files_listWidget.itemSelectionChanged
SelectFile ==
    /\ UserAction
    /\ ui.loaded
    /\ \E i \in 1..Len(Files) :
         /\ ui.sel # Some(Files[i])
         /\ UpdateImageData([ui EXCEPT !.sel = Some(Files[i])])
    /\ UNCHANGED <<shown, errbox, wr_runs, wr_cfg>>
    /\ UNCHANGED <<gvars, rvars>>

\* spinBox_offset.valueChanged
SetOffset ==
    /\ UserAction
    /\ \E k \in 0..MaxOffset :
         /\ k # ui.offset
         /\ UpdateImageData([ui EXCEPT !.offset = k])
    /\ UNCHANGED <<shown, errbox, wr_runs, wr_cfg>>
    /\ UNCHANGED <<gvars, rvars>>

\* spinBox_nrow.valueChanged
SetNrow ==
    /\ UserAction
    /\ \E n \in 1..MaxNrow :
         /\ n # ui.nrow
         /\ UpdateImageData([ui EXCEPT !.nrow = n])
    /\ UNCHANGED <<shown, errbox, wr_runs, wr_cfg>>
    /\ UNCHANGED <<gvars, rvars>>

\* checkBox_autonrow.stateChanged
ToggleAutoNrow ==
    /\ UserAction
    /\ UpdateImageData([ui EXCEPT !.auto = ~ui.auto])
    /\ UNCHANGED <<shown, errbox, wr_runs, wr_cfg>>
    /\ UNCHANGED <<gvars, rvars>>

\* checkBox_userange.stateChanged
ToggleUseRange ==
    /\ UserAction
    /\ UpdateImageData([ui EXCEPT !.userange = ~ui.userange])
    /\ UNCHANGED <<shown, errbox, wr_runs, wr_cfg>>
    /\ UNCHANGED <<gvars, rvars>>

\* the limits _update_image_data gives the range spin boxes once the range
\* check box is checked: lower <= upper - 2, upper >= lower + 2,
\* upper <= target_im.shape[0] - 1
range_allowed(u, lo, hi) ==
    /\ 0 <= lo /\ lo <= u.hi - 2
    /\ u.lo + 2 <= hi /\ hi <= reader_getitem(Val(u.sel)).shape[1] - 1

\* spinBox_drawrange_lower.valueChanged, spinBox_drawrange_upper.valueChanged:
\* one of the two spin boxes, enabled by the range check box, is given
\* another value within its limits
SetRange ==
    /\ UserAction
    /\ ui.userange /\ ~IsNone(ui.sel)
    /\ \E lo \in 0..ui.hi, hi \in ui.lo..(ui.hi + 1) :
         /\ (lo # ui.lo) # (hi # ui.hi)
         /\ range_allowed(ui, lo, hi)
         /\ UpdateImageData([ui EXCEPT !.lo = lo, !.hi = hi])
    /\ UNCHANGED <<shown, errbox, wr_runs, wr_cfg>>
    /\ UNCHANGED <<gvars, rvars>>

\* _action_open_segmentation_folder, with a directory chosen: a reader of the
\* masks is added; without a selection the first file is selected, which calls
\* _update_image_data, and with one _update_image_data is called
OpenSegmentationFolder ==
    /\ UserAction
    /\ ui.loaded
    /\ ui.nseg < MaxSegs
    /\ UpdateImageData([ui EXCEPT !.nseg = ui.nseg + 1,
                                  !.sel = IF IsNone(ui.sel) THEN Some(Files[1]) ELSE ui.sel])
    /\ UNCHANGED <<shown, errbox, wr_runs, wr_cfg>>
    /\ UNCHANGED <<gvars, rvars>>

export_unchecked(runs) == FALSE

\* _action_export_images: if self.io_write_worker.isRunning(): ... return
export_in_progress(runs) == runs > 0

\* _action_export_images.  dir_ok: the user chose a directory in the dialog.
ExportImages ==
    /\ UserAction
    /\ \E dir_ok \in BOOLEAN :
       IF ~ui.loaded
       THEN /\ errbox' = "Please specify source image directories first!"
            /\ UNCHANGED <<ui, wr_runs, wr_cfg, tvars>>
       ELSE IF export_in_progress(wr_runs)
       THEN /\ errbox' = "Export in progress already."
            /\ UNCHANGED <<ui, wr_runs, wr_cfg, tvars>>
       ELSE /\ IF IsNone(ui.sel)
               THEN UpdateImageData([ui EXCEPT !.sel = Some(Files[1])])
               ELSE UNCHANGED <<ui, tvars>>
            /\ IF dir_ok
               THEN \* writer_draw_worker.set_config(self.draw_worker._config);
                    \* configure_writer(...); self.io_write_worker.start()
                    /\ wr_cfg' = Some([id |-> events + 1, config |-> dw_config',
                                       dir |-> "out"])
                    /\ wr_runs' = thread_start(wr_runs)
                    /\ UNCHANGED errbox
               ELSE \* self._show_message("No directory supplied!")
                    UNCHANGED <<wr_cfg, wr_runs, errbox>>
    /\ UNCHANGED shown
    /\ UNCHANGED <<gvars, rvars>>

\* ngv_io_writer_wrapper.run(): self._writer.write() returns or raises, and
\* the thread ends
WriterRunEnd ==
    /\ wr_runs > 0
    /\ wr_runs' = wr_runs - 1
    /\ UNCHANGED <<shown, ui, errbox, wr_cfg, events>>
    /\ UNCHANGED <<gvars, tvars, rvars>>

\* _update_displayed_img, the slot of draw_worker.finished
UpdateDisplayedImg ==
    /\ pending > 0
    /\ pending' = pending - 1
    /\ shown' = dw_result
    /\ UNCHANGED <<env, heap, dw_config, dw_result, dw_pc, dw_target, dw_todo,
                   dw_runs, dw_exc, dw_hist, msgs>>
    /\ UNCHANGED <<ui, errbox, wr_runs, wr_cfg, events>>
    /\ UNCHANGED <<gvars, rvars>>

UIdle ==
    /\ shown = None /\ errbox = "" /\ wr_runs = 0 /\ wr_cfg = None /\ events = 0
    /\ ui = [loaded |-> FALSE, sel |-> None, auto |-> FALSE, userange |-> FALSE,
             lo |-> 0, hi |-> 0, nrow |-> 1, offset |-> 0, padding |-> 1,
             cmap |-> "Default", nseg |-> 0]

\* the check boxes are set up by the form (not in the sources): either state
UInit ==
    /\ shown = None /\ errbox = "" /\ wr_runs = 0 /\ wr_cfg = None /\ events = 0
    /\ \E auto \in BOOLEAN :
         ui = [loaded |-> FALSE, sel |-> None, auto |-> auto, userange |-> FALSE,
               lo |-> 0, hi |-> 0, nrow |-> 1, offset |-> 0, padding |-> 1,
               cmap |-> "Default", nseg |-> 0]

RIdle ==
    /\ rd_n = 0 /\ rd_pc = "idle" /\ rd_i = 0 /\ rd_sent = <<>> /\ rd_queue = <<>>
    /\ rd_msgs = <<>> /\ bar = -1 /\ status = "Ready."

UNext ==
    \/ OpenFolder \/ SelectFile \/ SetOffset \/ SetNrow \/ ToggleAutoNrow
    \/ ToggleUseRange \/ OpenSegmentationFolder \/ ExportImages
    \/ WriterRunEnd \/ UpdateDisplayedImg
    \/ RunPop \/ RunDraw \/ RunSegments \/ RunContour \/ RunEnd

InitGui == GInit /\ TIdle /\ UInit /\ RIdle

SpecGui == InitGui /\ [][UNext]_vars

\* ------------------------------------- the window with a volume on display
\* the for loop of run() over the masks, begun from the grid img
RECURSIVE overlay_all(_, _, _, _)
overlay_all(img, todo, cfg, e) ==
    IF todo = <<>> THEN img
    ELSE LET r == call_draw_grid_contour(img, Head(todo).ss, Head(todo).ss_color, cfg, e)
         IN IF r.status = "ok" THEN overlay_all(r.img, Tail(todo), cfg, e) ELSE img

\* what run() stores when nothing else touches the dictionary cfg
composition(cfg, e) ==
    IF IsNone(cfg.target_im) THEN None
    ELSE LET r == call_draw_grid(Val(cfg.target_im), cfg, e)
         IN IF r.status = "ok"
            THEN Some(overlay_all(r.img, zip_segments(cfg), cfg, e))
            ELSE None

\* widgets as they can be when the first file is selected: the folder is
\* open, the check boxes and spin boxes were set while no file was selected
\* (the handler ends at selectedItems()[0] then); opening a mask folder selects
\* the first file
Displays ==
    {u \in {[loaded |-> TRUE, sel |-> Some(Files[f]), auto |-> auto,
             userange |-> FALSE, lo |-> 0, hi |-> 0, nrow |-> nrow,
             offset |-> offset, padding |-> padding, cmap |-> "Default",
             nseg |-> nseg] :
                f \in 1..Len(Files), auto \in BOOLEAN, nrow \in 1..MaxNrow,
                offset \in 0..MaxOffset, padding \in 0..MaxMargin,
                nseg \in 0..MaxSegs} :
        u.nseg > 0 => u.sel = Some(Files[1])}

\* the first call of _update_image_data with a file selected has returned: the
\* dictionary is set and the draw task started
InitDisplay ==
    /\ GInit /\ RIdle
    /\ env = [py3 |-> TRUE, cv |-> 3]
    /\ \E u \in Displays :
         /\ ui = after_update(u)
         /\ heap = <<new_config(u)>>
         /\ dw_hist = [NoHist EXCEPT !.start = new_config(u)]
    /\ dw_config = 1 /\ dw_result = None /\ dw_pc = "pop" /\ dw_target = NoneImage
    /\ dw_todo = <<>> /\ dw_runs = 1 /\ dw_exc = "none" /\ msgs = <<>> /\ pending = 0
    /\ shown = None /\ errbox = "" /\ wr_runs = 0 /\ wr_cfg = None /\ events = 0

DNext ==
    \/ ToggleUseRange \/ SetRange \/ UpdateDisplayedImg
    \/ RunPop \/ RunDraw \/ RunSegments \/ RunContour \/ RunEnd

SpecDisplay == InitDisplay /\ [][DNext]_vars

\* ------------------------------------------- the draw task called directly
\* the dictionaries handed to set_config: with and without the volume, with a
\* volume that is no array, with and without a mask, its colour given or not
TaskVolumes == {None, Some(NoneImage), Some(Volume(<<2, 2, 2>>, "ramp"))}

TaskConfigs ==
    {Dict(t, seg.s, seg.c, nrow, offset, 1, None, FALSE) :
        t \in TaskVolumes,
        seg \in {[s |-> None, c |-> <<>>],
                 [s |-> Some(<<Volume(<<2, 2, 2>>, "dot")>>), c |-> <<Some(7)>>],
                 [s |-> Some(<<Volume(<<2, 2, 2>>, "dot")>>), c |-> <<None>>]},
        nrow \in {None, Some(2)},
        offset \in {None, Some(0), Some(1)}}

\* set_config(config)
TaskSetConfig ==
    /\ heap = <<>>
    /\ \E cfg \in TaskConfigs : heap' = <<cfg>>
    /\ dw_config' = 1
    /\ UNCHANGED <<env, dw_result, dw_pc, dw_target, dw_todo, dw_runs, dw_exc,
                   dw_hist, msgs, pending>>
    /\ UNCHANGED <<gvars, uvars, rvars>>

\* update_config(config): self._config.update(config), here with a volume
TaskUpdateConfig ==
    /\ UserAction
    /\ dw_config # 0 /\ dw_runs = 0
    /\ \E t \in TaskVolumes \ {None} :
         heap' = [heap EXCEPT ![dw_config].target_im = t]
    /\ UNCHANGED <<env, dw_config, dw_result, dw_pc, dw_target, dw_todo, dw_runs,
                   dw_exc, dw_hist, msgs, pending>>
    /\ UNCHANGED <<shown, ui, errbox, wr_runs, wr_cfg>>
    /\ UNCHANGED <<gvars, rvars>>

\* start()
TaskStart ==
    /\ UserAction
    /\ dw_runs = 0
    /\ Start(IF dw_config = 0 THEN NoDict ELSE heap[dw_config])
    /\ UNCHANGED <<env, heap, dw_config, dw_result, dw_target, dw_todo, msgs, pending>>
    /\ UNCHANGED <<shown, ui, errbox, wr_runs, wr_cfg>>
    /\ UNCHANGED <<gvars, rvars>>

\* the task runs under either interpreter and either OpenCV
TInit ==
    /\ env \in [py3 : BOOLEAN, cv : {3, 4}]
    /\ heap = <<>> /\ dw_config = 0 /\ dw_result = None /\ dw_pc = "idle"
    /\ dw_target = NoneImage /\ dw_todo = <<>> /\ dw_runs = 0 /\ dw_exc = "none"
    /\ dw_hist = NoHist /\ msgs = <<>> /\ pending = 0

TNext ==
    \/ TaskSetConfig \/ TaskUpdateConfig \/ TaskStart
    \/ RunPop \/ RunDraw \/ RunSegments \/ RunContour \/ RunEnd

InitTask == GInit /\ TInit /\ UIdle /\ RIdle

SpecTask == InitTask /\ [][TNext]_vars

\* -------------------------------------------------------- ngv_io_wrapper.py
MaxFiles == 5

\* configure_reader(folder): the reader finds rd_n files
ConfigureReader ==
    /\ rd_pc = "idle"
    /\ \E n \in 0..MaxFiles : rd_n' = n
    /\ rd_pc' = "configured"
    /\ UNCHANGED <<rd_i, rd_sent, rd_queue, rd_msgs, bar, status>>
    /\ UNCHANGED <<gvars, tvars, uvars>>

\* start(): run() calls read_all_targets(), which asserts that the reader is
\* configured
ReaderStart ==
    /\ rd_pc \in {"idle", "configured"}
    /\ IF rd_pc = "idle"
       THEN \* the bare except of run()
            /\ rd_queue' = Append(rd_queue, [sig |-> "msg", val |-> 0,
                                              text |-> "Reader encounters error..."])
            /\ rd_msgs' = Append(rd_msgs, [text |-> "Reader encounters error...",
                                            after |-> Len(rd_sent)])
            /\ rd_pc' = "failed"
       ELSE rd_pc' = "loop" /\ UNCHANGED <<rd_queue, rd_msgs>>
    /\ rd_i' = 0
    /\ UNCHANGED <<rd_n, rd_sent, bar, status>>
    /\ UNCHANGED <<gvars, tvars, uvars>>

\* self.update_progress.emit((100 * i) // l)
read_progress(i, l) == (100 * i) \div l

\* one turn of the loop of read_all_targets: self._reader._read_file(i), which
\* may raise, then the progress of the turn
ReadFile ==
    /\ rd_pc = "loop" /\ rd_i < rd_n
    /\ \E ok \in BOOLEAN :
         IF ok
         THEN /\ rd_sent' = Append(rd_sent, read_progress(rd_i, rd_n))
              /\ rd_queue' = Append(rd_queue, [sig |-> "progress",
                                                val |-> read_progress(rd_i, rd_n),
                                                text |-> ""])
              /\ rd_i' = rd_i + 1
              /\ UNCHANGED <<rd_pc, rd_msgs>>
         ELSE /\ rd_queue' = Append(rd_queue, [sig |-> "msg", val |-> 0,
                                                text |-> "Reader encounters error..."])
              /\ rd_msgs' = Append(rd_msgs, [text |-> "Reader encounters error...",
                                              after |-> Len(rd_sent)])
              /\ rd_pc' = "failed"
              /\ UNCHANGED <<rd_sent, rd_i>>
    /\ UNCHANGED <<rd_n, bar, status>>
    /\ UNCHANGED <<gvars, tvars, uvars>>

\* after the loop: self.display_msg.emit("Ready.")
ReadDone ==
    /\ rd_pc = "loop" /\ rd_i = rd_n
    /\ rd_queue' = Append(rd_queue, [sig |-> "msg", val |-> 0, text |-> "Ready."])
    /\ rd_msgs' = Append(rd_msgs, [text |-> "Ready.", after |-> Len(rd_sent)])
    /\ rd_pc' = "done"
    /\ UNCHANGED <<rd_n, rd_i, rd_sent, bar, status>>
    /\ UNCHANGED <<gvars, tvars, uvars>>

\* the UI thread takes the next signal: _update_progress(val) or
\* _show_message(s)
DeliverSignal ==
    /\ rd_queue # <<>>
    /\ LET m == Head(rd_queue)
       IN IF m.sig = "progress"
          THEN /\ bar' = m.val
               /\ status' = IF m.val = 100 THEN "Ready." ELSE status
          ELSE /\ status' = m.text
               /\ UNCHANGED bar
    /\ rd_queue' = Tail(rd_queue)
    /\ UNCHANGED <<rd_n, rd_pc, rd_i, rd_sent, rd_msgs>>
    /\ UNCHANGED <<gvars, tvars, uvars>>

RNext == ConfigureReader \/ ReaderStart \/ ReadFile \/ ReadDone \/ DeliverSignal

InitReader == GInit /\ TIdle /\ UIdle /\ RIdle

SpecReader == InitReader /\ [][RNext]_vars

InitGrid == GInit /\ TIdle /\ UIdle /\ RIdle

SpecGrid == InitGrid /\ [][GNext]_vars

\* ------------------------------------------------------------------ claims

\* V with k all-zero slices prepended along the depth axis
zero_prepend(V, k) ==
    [shape |-> <<V.shape[1] + k, V.shape[2], V.shape[3]>>,
     data  |-> Zeros(k * V.shape[2] * V.shape[3]) \o V.data]

\* C1: for every volume and offset k >= 0, draw_grid(V, offset=k) and
\* draw_grid(k zero slices + V, offset=0) succeed together and return the
\* same image.
C1_OffsetIsPrepend ==
    (gpc # "idle" /\ ~IsNone(gargs.offset) /\ Val(gargs.offset) >= 0) =>
        LET other == draw_grid(zero_prepend(gargs.image, Val(gargs.offset)),
                               gargs.crop, gargs.nrow, Some(0), gargs.background,
                               gargs.margins, gargs.cmap, gargs.py3)
        IN /\ (gbase.status = "ok") <=> (other.status = "ok")
           /\ gbase.img = other.img

\* C2 (the draw_grid half): with nrow=None the grid has ceil(sqrt(D)) columns,
\* D the depth with the offset slices.
C2_AutoColumnsDrawGrid ==
    (gpc # "idle" /\ gbase.status = "ok" /\ IsNone(gargs.nrow)) =>
        gbase.cols = CeilSqrt(gbase.depth)

\* C3 as claimed: an explicit column count n gives exactly n columns and
\* ceil(D/n) rows, an image of (rows*(H+m)+m) by (n*(W+m)+m).
C3_ExactColumns ==
    (gpc # "idle" /\ gbase.status = "ok" /\ ~IsNone(gargs.nrow)
                 /\ ~IsNone(gargs.offset)) =>
        LET n == Val(gargs.nrow)
            m == gargs.margins
        IN /\ gbase.cols = n
           /\ gbase.rows = CeilDiv(gbase.depth, n)
           /\ gbase.img.h = CeilDiv(gbase.depth, n) * (gbase.sh + m) + m
           /\ gbase.img.w = n * (gbase.sw + m) + m

\* C3 as amended: an explicit column count n and a depth D >= 2 give
\* min(n, D) columns and ceil(D/min(n, D)) rows, an image of (rows*(H+m)+m) by
\* (min(n, D)*(W+m)+m); a single slice (D = 1) is returned as it is, H by W.
C3_ColumnsCappedByDepth ==
    (gpc # "idle" /\ gbase.status = "ok" /\ ~IsNone(gargs.nrow)) =>
        LET n == Val(gargs.nrow)
            m == gargs.margins
            D == gbase.depth
            c == IF n <= D THEN n ELSE D
            r == CeilDiv(D, c)
        IN /\ gbase.cols = c /\ gbase.rows = r
           /\ Len(gbase.img.px) = gbase.img.h * gbase.img.w
           /\ IF D = 1
              THEN gbase.img.h = gbase.sh /\ gbase.img.w = gbase.sw
              ELSE /\ gbase.img.h = r * (gbase.sh + m) + m
                   /\ gbase.img.w = c * (gbase.sw + m) + m

\* a grid composed with more columns asked for than there are slices
C3_Witness ==
    /\ gpc = "composed" /\ gbase.status = "ok" /\ ~IsNone(gargs.nrow)
    /\ Val(gargs.nrow) > gbase.depth /\ gbase.depth >= 2
    /\ gbase.cols = gbase.depth /\ gargs.margins = 1

\* C4: the crop bounds lie within the image: 0 <= lower bound, and each upper
\* bound is at most the extent of its own spatial axis (height, then width),
\* in draw_grid and in draw_grid_contour.
C4_CropWithinImage ==
    /\ (gpc # "idle" /\ gbase.status = "ok" /\ ~IsNone(gargs.crop)
                     /\ ~IsNone(gargs.offset)) =>
          /\ gbase.lb[1] >= 0 /\ gbase.lb[2] >= 0
          /\ gbase.ub[1] <= gbase.H /\ gbase.ub[2] <= gbase.W
    /\ (gpc = "overlaid" /\ gout.status = "ok" /\ ~IsNone(gargs.crop)) =>
          /\ gout.lb[1] >= 0 /\ gout.lb[2] >= 0
          /\ gout.ub[1] <= gbase.H /\ gout.ub[2] <= gbase.W

AllZero(t) == \A i \in 1..Len(t.data) : t.data[i] = 0

\* C5: draw_grid_contour with an all-zero mask returns the base grid with
\* every pixel unchanged, whatever the configuration (here with the OpenCV
\* the code is written for).
C5_EmptyMaskKeepsBase ==
    (gpc = "overlaid" /\ AllZero(gcall.seg) /\ gcall.cv = 3) =>
        (gout.status = "ok" /\ gout.img = gbase.img)

\* C6 as claimed: a failure of the contour extraction or of the contour
\* drawing is caught; the call returns the base grid unmodified.
C6_AnyFailureCaught ==
    (gpc = "overlaid" /\ (gcall.cv # 3 \/ IsNone(gcall.color))) =>
        (gout.status = "ok" /\ gout.img = gbase.img)

\* C6 as amended: a failure of the contour drawing (the colour argument, or
\* cv2.drawContours) is caught and the base grid is returned unmodified; a
\* failure of the contour extraction is not caught and leaves the call.
C6_DrawingFailureCaught ==
    /\ (gpc = "overlaid" /\ gcall.cv = 3 /\ IsNone(gcall.color)) =>
          (gout.status = "ok" /\ gout.img = gbase.img)
    /\ (gpc = "overlaid" /\ gcall.cv # 3) => gout.status = "ValueError"

\* the colour is missing where there are contours to draw
C6_Witness ==
    /\ gpc = "overlaid" /\ gcall.cv = 3 /\ IsNone(gcall.color)
    /\ gout.contours # {} /\ gout.caught = "AttributeError"
    /\ gout.img = gbase.img

\* C2 (the main window half): with the auto check box checked, the grid the
\* draw task stores has ceil(sqrt(D)) columns, D the depth with the offset
\* slices.
C2_AutoColumnsMainWindow ==
    (dw_hist.stored /\ dw_hist.auto) => dw_hist.cols = CeilSqrt(dw_hist.depth)

\* C7: a run of the draw task whose dictionary has no 'target_im', or one that
\* is no array, emits "Wrong drawing configuration" and no exception leaves
\* run().
C7_BadVolumeReported ==
    (dw_pc = "end" /\ dw_config # 0
       /\ (IsNone(dw_hist.start.target_im) \/ dw_hist.start.target_im = Some(NoneImage))) =>
        /\ dw_exc = "none"
        /\ Len(msgs) = dw_hist.nmsg + 1
        /\ msgs[Len(msgs)] = "Wrong drawing configuration"

\* C8: the result a run of the draw task has stored when it ends is the
\* composition of the dictionary as it was when the run was started, whatever
\* the UI thread did to the wrapper's configuration in between.
C8_InFlightConfigFrozen ==
    (dw_pc = "end" /\ dw_hist.stored) => dw_result = composition(dw_hist.start, env)

\* C9: no step leaves more than one run of the draw task or of the export
\* task active, and while the export task runs no step reconfigures or
\* restarts the writer.
C9_OneRunPerTask ==
    [][/\ dw_runs' <= 1 /\ wr_runs' <= 1
       /\ (wr_runs > 0) => (wr_cfg' = wr_cfg /\ wr_runs' <= wr_runs)]_vars

\* an export asked for while the export task runs, and turned down
C9_Witness ==
    /\ wr_runs = 1 /\ errbox = "Export in progress already."
    /\ ~IsNone(wr_cfg) /\ Val(wr_cfg).id < events

\* C10: a reader task that succeeds over N >= 1 files has sent progress values
\* that begin with 0, stay within 0..100, never decrease and end with 100, and
\* has sent "Ready." after the last of them.
C10_ProgressRunsTo100 ==
    (rd_pc = "done" /\ rd_n >= 1) =>
        LET n == Len(rd_sent)
        IN /\ n >= 1 /\ rd_sent[1] = 0 /\ rd_sent[n] = 100
           /\ \A i \in 1..n : rd_sent[i] \in 0..100
           /\ \A i \in 1..(n - 1) : rd_sent[i] <= rd_sent[i + 1]
           /\ \E j \in 1..Len(rd_msgs) : rd_msgs[j].text = "Ready."
           /\ \A j \in 1..Len(rd_msgs) :
                rd_msgs[j].text = "Ready." => rd_msgs[j].after = n

\* C11: for every configuration the main window builds, the mask grid that
\* draw_grid_contour tiles has the geometry of the base grid that draw_grid
\* tiles: as many slices, the same columns and rows, the same image size.  The
\* two grids are those of the dictionary a run was started with, taken where
\* the run overlays the first mask.
C11_MaskGridMatchesBase ==
    (/\ dw_pc = "contour"
     /\ dw_hist.start.target_im = Some(dw_target)
     /\ [heap[dw_config] EXCEPT !.target_im = Some(dw_target)] = dw_hist.start) =>
        LET cfg == dw_hist.start
            b   == call_draw_grid(dw_target, cfg, env)
            r   == call_draw_grid_contour(b.img, Head(zip_segments(cfg)).ss,
                                          Head(zip_segments(cfg)).ss_color, cfg, env)
        IN (b.status = "ok" /\ r.status = "ok") =>
             /\ r.depth = b.depth
             /\ r.cols = b.cols /\ r.rows = b.rows
             /\ r.gh = b.img.h /\ r.gw = b.img.w

\* C12: the offset is optional.  A call fails on the offset's account exactly
\* when the offset is negative; with the offset left at None the call succeeds,
\* prepends no slice and returns what offset=0 returns.
C12_OffsetOptional ==
    /\ (gpc # "idle" /\ ~IsNone(gargs.offset)) =>
          ((gbase.status \in {"AssertionError", "TypeError"}) <=> (Val(gargs.offset) < 0))
    /\ (gpc = "overlaid" /\ ~IsNone(gargs.offset)) =>
          gout.status \notin {"AssertionError", "TypeError"}
    /\ (gpc # "idle" /\ IsNone(gargs.offset)) =>
          LET zero == draw_grid(gargs.image, gargs.crop, gargs.nrow, Some(0),
                                gargs.background, gargs.margins, gargs.cmap, gargs.py3)
          IN /\ gbase.status = "ok"
             /\ gbase.depth = gargs.image.shape[1]
             /\ zero.status = "ok" /\ gbase.img = zero.img

\* C13: once the draw task is idle and its finished signals are handled, the
\* image on display is the composition of the configuration set last, that
\* of the widgets as they are now (nothing is on display where that
\* composition fails).
C13_ShownIsLatest ==
    (dw_runs = 0 /\ pending = 0 /\ ~IsNone(ui.sel)) =>
        shown = composition(new_config(ui), env)

====
